---- MODULE Spec2Model ----
(***************************************************************************)
(* The payment channel of pyatn-client: the Channel object of              *)
(* microraiden/client/channel.py (balance, balance signature, deposit,     *)
(* lifecycle state) and the operations that drive it, together with        *)
(* Atn.wait_dbot_sync of atn.py, which adopts the payee server's balance.   *)
(*                                                                         *)
(* The ledger and the payee server are external: what they answer (the     *)
(* account balance, whether the awaited event is seen before the waiter    *)
(* times out, whether the settlement block is reached, the server's        *)
(* channel info) is chosen by the environment at every call.               *)
(***************************************************************************)
EXTENDS Integers, Sequences, FiniteSets, TLC

VARIABLES chan, last, hist, opened, sync, ledger, callers

vars == <<chan, last, hist, opened, sync, ledger, callers>>

(***************************************************************************)
(* Bounds of the model.                                                    *)
(***************************************************************************)
\* the largest deposit a channel reaches (opening deposit plus topups)
MaxDeposit == 3
\* the largest value passed to create_transfer
MaxValue == 2
\* the largest amount passed to topup, and the largest account balance read
MaxTopup == 2
\* the number of polls of the server after which a waiting wait_dbot_sync is
\* no longer followed
MaxPolls == 7

(***************************************************************************)
(* Addresses, keys and signatures.                                         *)
(***************************************************************************)
\* context.py:17  self.address, the payer
Sender == "S"
\* a payee that is an externally owned account (getCode gives no bytecode)
ReceiverEOA == "R_eoa"
\* a payee that is a contract (a DBot), and the address of its owner
ReceiverDbot == "R_dbot"
DbotOwner == "Owner"
\* some third party
Mallory == "Mallory"
\* what signature recovery yields when the signed message is another one
UnknownAddr == "Unknown"
\* context.py:21  the channel manager contract's address
ChannelManager == "CM"
\* channel.py:43  the block the channel was opened at
OpenBlock == 1

Receivers == {ReceiverEOA, ReceiverDbot}
Signers == {ReceiverEOA, DbotOwner, Mallory}

\* the private key of an address, and context.py:17 privkey_to_addr
KeyOf(addr) == <<"key", addr>>
privkey_to_addr(key) == key[2]
\* context.py:16  self.private_key
PrivateKey == KeyOf(Sender)

\* channel.py:203  web3.eth.getCode(receiver): whether the receiver is a contract
getCode(receiver) == receiver = ReceiverDbot

\* the sender's signature over a balance proof (receiver, open block, balance,
\* contract address)
sign_balance_proof(key, receiver, block, balance, contract) ==
    [signer |-> privkey_to_addr(key),
     msg |-> <<"balance", receiver, block, balance, contract>>]

\* the receiver's signature over a closing message (sender, open block,
\* balance, contract address)
sign_close(key, sender, block, balance, contract) ==
    [signer |-> privkey_to_addr(key),
     msg |-> <<"close", sender, block, balance, contract>>]

\* the address a closing signature recovers to, given the message the verifier
\* rebuilds from (sender, open block, balance, contract address)
verify_closing_sig(sender, block, balance, sig, contract) ==
    IF sig.msg = <<"close", sender, block, balance, contract>>
    THEN sig.signer
    ELSE UnknownAddr

\* eth_utils.is_same_address on normalised addresses
is_same_address(a, b) == a = b

\* no signature (a return value that carries none)
NoSig == [signer |-> "none", msg |-> <<"none", "none", 0, 0, "none">>]

(***************************************************************************)
(* The Channel object.                                                     *)
(***************************************************************************)
\* channel.py:20-23  Channel.State
States == {"open", "settling", "closed"}

\* channel.py:67-75  Channel.sign
sign(c) ==
    sign_balance_proof(PrivateKey, c.receiver, c.block, c.balance, ChannelManager)

\* a balance update that keeps the old signature
update_balance_stale(c, value) == [c EXCEPT !.balance = value]

\* channel.py:59-61  Channel.update_balance
update_balance(c, value) ==
    LET b == [c EXCEPT !.balance = value]
    IN  [b EXCEPT !.balance_sig = sign(b)]

\* channel.py:25-49  Channel.__init__ with balance 0 and state open
NewChannel(receiver, deposit) ==
    update_balance(
        [sender |-> Sender, receiver |-> receiver, block |-> OpenBlock,
         deposit |-> deposit, balance |-> 0, balance_sig |-> NoSig,
         state |-> "open"],
        0)

\* channel.py:334-335  Channel.remain_balance
remain_balance(c) == c.deposit - c.balance

\* channel.py:337-338  Channel.is_suitable
is_suitable(c, value) == remain_balance(c) >= value

\* channel.py:331-332  Channel.is_valid
is_valid(c) == sign(c) = c.balance_sig /\ c.balance <= c.deposit

(***************************************************************************)
(* What an operation gives back: the channel after it, the value returned  *)
(* (ret, and the signature when ret = "sig"), the transaction it submitted *)
(* ("none" when it submitted none) and whether on_settle was called.       *)
(***************************************************************************)
Res(c, ret, sig, tx, tx_arg, cb) ==
    [chan |-> c, ret |-> ret, ret_sig |-> sig, tx |-> tx, tx_arg |-> tx_arg,
     on_settle |-> cb]

\* a return of None with no transaction submitted and nothing changed
Refused(c) == Res(c, "None", NoSig, "none", 0, FALSE)

\* a transfer that adds one more than the value
create_transfer_plus(c, value) ==
    IF value < 0 THEN Res(c, "AssertionError", NoSig, "none", 0, FALSE)
    ELSE IF remain_balance(c) < value THEN Refused(c)
    ELSE IF c.state = "closed" THEN Refused(c)
    ELSE LET n == update_balance(c, c.balance + value + 1)
         IN  Res(n, "sig", n.balance_sig, "none", 0, FALSE)

\* a transfer that does not check the remaining balance
create_transfer_nocheck(c, value) ==
    IF value < 0 THEN Res(c, "AssertionError", NoSig, "none", 0, FALSE)
    ELSE IF c.state = "closed" THEN Refused(c)
    ELSE LET n == update_balance(c, c.balance + value)
         IN  Res(n, "sig", n.balance_sig, "none", 0, FALSE)

\* channel.py:306-329  Channel.create_transfer
create_transfer(c, value) ==
    IF value < 0 THEN Res(c, "AssertionError", NoSig, "none", 0, FALSE)
    ELSE IF remain_balance(c) < value THEN Refused(c)
    ELSE IF c.state = "closed" THEN Refused(c)
    ELSE LET n == update_balance(c, c.balance + value)
         IN  Res(n, "sig", n.balance_sig, "none", 0, FALSE)

\* a topup that does not read the account's balance
topup_unfunded(c, deposit, account_balance, event) ==
    IF c.state # "open" THEN Refused(c)
    ELSE IF event
         THEN Res([c EXCEPT !.deposit = @ + deposit],
                  "event", NoSig, "topUp", deposit, FALSE)
         ELSE Res(c, "None", NoSig, "topUp", deposit, FALSE)

\* a topup that takes the amount as the whole deposit
topup_replace(c, deposit, account_balance, event) ==
    IF c.state # "open" THEN Refused(c)
    ELSE IF account_balance < deposit THEN Refused(c)
    ELSE IF event
         THEN Res([c EXCEPT !.deposit = deposit],
                  "event", NoSig, "topUp", deposit, FALSE)
         ELSE Res(c, "None", NoSig, "topUp", deposit, FALSE)

\* a topup that counts the amount as paid to the receiver
topup_paid(c, deposit, account_balance, event) ==
    IF c.state # "open" THEN Refused(c)
    ELSE IF account_balance < deposit THEN Refused(c)
    ELSE IF event
         THEN Res(update_balance([c EXCEPT !.deposit = @ + deposit],
                                 c.balance + deposit),
                  "event", NoSig, "topUp", deposit, FALSE)
         ELSE Res(c, "None", NoSig, "topUp", deposit, FALSE)

\* a topup that counts the deposit before the event is seen
topup_optimistic(c, deposit, account_balance, event) ==
    IF c.state # "open" THEN Refused(c)
    ELSE IF account_balance < deposit THEN Refused(c)
    ELSE Res([c EXCEPT !.deposit = @ + deposit],
             IF event THEN "event" ELSE "None", NoSig, "topUp", deposit, FALSE)

\* channel.py:77-131  Channel.topup; account_balance is what getBalance reads,
\* event whether get_event_blocking returns a ChannelToppedUp event
topup(c, deposit, account_balance, event) ==
    IF c.state # "open" THEN Refused(c)
    ELSE IF account_balance < deposit THEN Refused(c)
    ELSE IF event
         THEN Res([c EXCEPT !.deposit = @ + deposit],
                  "event", NoSig, "topUp", deposit, FALSE)
         ELSE Res(c, "None", NoSig, "topUp", deposit, FALSE)

\* a close that takes the balance passed before it looks at the state
close_override_first(c, override, balance, event) ==
    LET b == IF override THEN update_balance(c, balance) ELSE c
    IN  IF c.state # "open" THEN Refused(b)
        ELSE IF event
             THEN Res([b EXCEPT !.state = "settling"],
                      "event", NoSig, "uncooperativeClose", b.balance, FALSE)
             ELSE Res(b, "None", NoSig, "uncooperativeClose", b.balance,
                      FALSE)

\* a close that does not look at the state
close_noguard(c, override, balance, event) ==
    LET b == IF override THEN update_balance(c, balance) ELSE c
    IN  IF event
        THEN Res([b EXCEPT !.state = "settling"],
                 "event", NoSig, "uncooperativeClose", b.balance, FALSE)
        ELSE Res(b, "None", NoSig, "uncooperativeClose", b.balance, FALSE)

\* channel.py:133-181  Channel.close; override says whether a balance is
\* passed (balance is not None), event whether get_event_blocking returns a
\* ChannelCloseRequested event
close(c, override, balance, event) ==
    IF c.state # "open" THEN Refused(c)
    ELSE LET b == IF override THEN update_balance(c, balance) ELSE c
         IN  IF event
             THEN Res([b EXCEPT !.state = "settling"],
                      "event", NoSig, "uncooperativeClose", b.balance, FALSE)
             ELSE Res(b, "None", NoSig, "uncooperativeClose", b.balance, FALSE)

\* no owner passed (contract_receiver_owner is None)
NoOwner == "none"

\* a cooperative close that calls on_settle when the event is seen
SubmitCooperativeClose_notify(c, event) ==
    IF event
    THEN Res([c EXCEPT !.state = "closed"],
             "event", NoSig, "cooperativeClose", c.balance, TRUE)
    ELSE Res(c, "None", NoSig, "cooperativeClose", c.balance, FALSE)

\* channel.py:215-247  the cooperativeClose transaction and the wait for
\* ChannelSettled
SubmitCooperativeClose(c, event) ==
    IF event
    THEN Res([c EXCEPT !.state = "closed"],
             "event", NoSig, "cooperativeClose", c.balance, FALSE)
    ELSE Res(c, "None", NoSig, "cooperativeClose", c.balance, FALSE)

\* a cooperative close that goes on without the owner of a contract receiver
close_cooperatively_nohint(c, closing_sig, contract_receiver_owner, event) ==
    IF c.state = "closed" THEN Refused(c)
    ELSE LET receiver_recovered ==
                 verify_closing_sig(c.sender, c.block, c.balance, closing_sig,
                                    ChannelManager)
         IN  IF getCode(c.receiver)
             THEN IF /\ contract_receiver_owner # NoOwner
                     /\ ~is_same_address(receiver_recovered,
                                         contract_receiver_owner)
                  THEN Refused(c)
                  ELSE SubmitCooperativeClose(c, event)
             ELSE IF ~is_same_address(receiver_recovered, c.receiver)
                  THEN Refused(c)
                  ELSE SubmitCooperativeClose(c, event)

\* a cooperative close that does not compare the recovered address
close_cooperatively_nocheck(c, closing_sig, contract_receiver_owner, event) ==
    IF c.state = "closed" THEN Refused(c)
    ELSE IF getCode(c.receiver) /\ contract_receiver_owner = NoOwner
         THEN Res(c, "AssertionError", NoSig, "none", 0, FALSE)
         ELSE SubmitCooperativeClose(c, event)

\* channel.py:183-247  Channel.close_cooperatively
close_cooperatively(c, closing_sig, contract_receiver_owner, event) ==
    IF c.state = "closed" THEN Refused(c)
    ELSE LET receiver_recovered ==
                 verify_closing_sig(c.sender, c.block, c.balance, closing_sig,
                                    ChannelManager)
         IN  IF getCode(c.receiver)
             THEN IF contract_receiver_owner = NoOwner
                  THEN Res(c, "AssertionError", NoSig, "none", 0, FALSE)
                  ELSE IF ~is_same_address(receiver_recovered,
                                           contract_receiver_owner)
                       THEN Refused(c)
                       ELSE SubmitCooperativeClose(c, event)
             ELSE IF ~is_same_address(receiver_recovered, c.receiver)
                  THEN Refused(c)
                  ELSE SubmitCooperativeClose(c, event)

\* a settle that takes the deposit out of the channel object
settle_payout(c, wait_remaining, event) ==
    IF c.state # "settling" THEN Refused(c)
    ELSE IF wait_remaining > 0 THEN Refused(c)
    ELSE IF event
         THEN Res([c EXCEPT !.state = "closed", !.deposit = 0],
                  "event", NoSig, "settle", 0, TRUE)
         ELSE Res(c, "None", NoSig, "settle", 0, FALSE)

\* a settle that submits one block before the settlement block
settle_early(c, wait_remaining, event) ==
    IF c.state # "settling" THEN Refused(c)
    ELSE IF wait_remaining > 1 THEN Refused(c)
    ELSE IF event
         THEN Res([c EXCEPT !.state = "closed"],
                  "event", NoSig, "settle", 0, TRUE)
         ELSE Res(c, "None", NoSig, "settle", 0, FALSE)

\* a settle that marks the channel closed as soon as the transaction is sent
settle_eager(c, wait_remaining, event) ==
    IF c.state # "settling" THEN Refused(c)
    ELSE IF wait_remaining > 0 THEN Refused(c)
    ELSE Res([c EXCEPT !.state = "closed"],
             IF event THEN "event" ELSE "None", NoSig, "settle", 0, event)

\* channel.py:249-304  Channel.settle; wait_remaining is the settlement block
\* read from the contract minus the current block, event whether
\* get_event_blocking returns a ChannelSettled event
settle(c, wait_remaining, event) ==
    IF c.state # "settling" THEN Refused(c)
    ELSE IF wait_remaining > 0 THEN Refused(c)
    ELSE IF event
         THEN Res([c EXCEPT !.state = "closed"],
                  "event", NoSig, "settle", 0, TRUE)
         ELSE Res(c, "None", NoSig, "settle", 0, FALSE)

(***************************************************************************)
(* Atn.wait_dbot_sync.                                                     *)
(***************************************************************************)
\* atn.py:117  the default retry_times
DefaultRetryTimes == 5

\* atn.py:98-115  what get_dbot_channel gives: None (ok = FALSE) or the
\* server's channel info; the server holds no balance above the deposit it
\* knows
NoInfo == [ok |-> FALSE, deposit |-> 0, balance |-> 0]
DbotChannelInfos ==
    {NoInfo} \cup
    {i \in [ok : {TRUE}, deposit : 0..MaxDeposit, balance : 0..MaxDeposit] :
        i.balance <= i.deposit}

\* atn.py:125,131  dbot_channel is not None and its deposit is the channel's
Synced(c, dbot_channel) == dbot_channel.ok /\ dbot_channel.deposit = c.deposit

\* atn.py:125  the loop of wait_dbot_sync is left with dbot_channel as the last
\* answer of the server
SyncLoopEnds(c, retry_times, dbot_channel) ==
    ~(retry_times > 0 /\ ~Synced(c, dbot_channel))

\* a wait_dbot_sync that takes the server's balance whatever deposit it reports
wait_dbot_sync_lenient(c, retry_times, dbot_channel) ==
    IF dbot_channel.ok
    THEN Res(update_balance(c, dbot_channel.balance),
             "returned", NoSig, "none", 0, FALSE)
    ELSE Res(c, "AtnException", NoSig, "none", 0, FALSE)

\* atn.py:117-134  Atn.wait_dbot_sync from the end of its loop
wait_dbot_sync(c, retry_times, dbot_channel) ==
    IF Synced(c, dbot_channel)
    THEN Res(update_balance(c, dbot_channel.balance),
             "returned", NoSig, "none", 0, FALSE)
    ELSE Res(c, "AtnException", NoSig, "none", 0, FALSE)

(***************************************************************************)
(* The record of the last operation: its name, the channel before it, its  *)
(* arguments, whether the awaited event was seen, and what the operation   *)
(* gave back.                                                              *)
(***************************************************************************)
\* what a call of Atn did: whether a deposit strategy was configured and the
\* amount it gives for the price, whether get_channel found a channel at the
\* start, how get_suitable_channel ended and the remaining balance of the
\* channel it gave, whether wait_dbot_sync saw the server report the
\* channel's deposit, what create_transfer returned and the balance before
\* it, whether the paid HTTP request was issued and the balance and signature
\* in its headers, how the cooperative close ended, whether Channel.close(0)
\* was invoked, and the transactions submitted, in order
NoCall ==
    [configured |-> FALSE, amount |-> 0, existed |-> FALSE,
     gsc |-> "not run", gsc_remain |-> 0, synced |-> FALSE,
     transfer |-> "not run", paid_from |-> 0,
     request |-> FALSE, req_balance |-> 0, req_sig |-> NoSig,
     coop |-> "not run", close0 |-> FALSE, txs |-> <<>>,
     has_channel |-> FALSE, with_headers |-> FALSE, caller |-> <<>>,
     built |-> <<>>, sent |-> <<>>]

\* the condition argument of get_event_blocking: given or None, and the logs
\* it accepts
NoCondition == [given |-> FALSE, accepts |-> {}]

\* a call of get_event_blocking: its arguments, the logs each poll gets, how
\* it ended, the log returned, the calls of get_logs and of _wait it made
NoPoll ==
    [timeout |-> 0, wait |-> 0, condition |-> NoCondition, answers |-> <<>>,
     ret |-> "not run", event |-> "none", polls |-> 0, waits |-> 0]

NoOp ==
    [op |-> "init", pre |-> NewChannel(ReceiverEOA, 0),
     arg |-> 0, override |-> FALSE, event |-> FALSE,
     closing_sig |-> NoSig, owner |-> "none",
     ret |-> "None", ret_sig |-> NoSig, tx |-> "none", tx_arg |-> 0,
     on_settle |-> FALSE, call |-> NoCall, poll |-> NoPoll,
     account_balance |-> 0]

Done(op, arg, r) ==
    [NoOp EXCEPT !.op = op, !.pre = chan, !.arg = arg,
                 !.ret = r.ret, !.ret_sig = r.ret_sig,
                 !.tx = r.tx, !.tx_arg = r.tx_arg, !.on_settle = r.on_settle]

\* the balance since it was last set by something other than a transfer, and
\* the sum of the successful transfers since
Restart(c) == [base |-> c.balance, sum |-> 0]
Track(c) == IF c.balance = chan.balance THEN hist ELSE Restart(c)

\* atn.py:117-130  where a call of wait_dbot_sync stands: not running
\* ("idle"), or at the test of its loop ("loop") with its parameter
\* retry_times, its local remain_times, the last answer of the server
\* (dbot_channel) and the number of turns of the loop made so far
SyncIdle ==
    [pc |-> "idle", retry_times |-> 0, remain_times |-> 0,
     dbot_channel |-> NoInfo, polls |-> 0]

\* the ledger as the account sees it: the account's transaction count
\* (getTransactionCount), the block number, the transactions sent and not
\* mined, the deposits the contract holds for the two channels, the
\* ChannelToppedUp logs, and the number of transactions started
NoLedger ==
    [nonce |-> 0, block |-> 0, pool |-> {}, deposit |-> <<0, 0>>,
     events |-> {}, started |-> 0]

\* a caller that is not inside a call
IdleCaller == [pc |-> "idle", deposit |-> 0, current_block |-> 0, nonce |-> 0]

\* the channel with the other payee and the two callers
NoCallers ==
    [other |-> NewChannel(ReceiverDbot, 0), t |-> <<IdleCaller, IdleCaller>>]

Init ==
    /\ \E receiver \in Receivers, deposit \in 1..MaxDeposit :
           chan = NewChannel(receiver, deposit)
    /\ last = [NoOp EXCEPT !.pre = chan]
    /\ hist = [base |-> 0, sum |-> 0]
    /\ opened = TRUE
    /\ sync = SyncIdle
    /\ ledger = NoLedger
    /\ callers = NoCallers

CreateTransfer ==
    \E value \in -1..MaxValue :
        LET r == create_transfer(chan, value)
        IN  /\ chan' = r.chan
            /\ last' = Done("create_transfer", value, r)
            /\ hist' = IF r.ret = "sig"
                       THEN [hist EXCEPT !.sum = @ + value]
                       ELSE hist
            /\ UNCHANGED <<opened, sync, ledger, callers>>

Topup ==
    \E deposit \in 0..MaxTopup, account_balance \in 0..MaxTopup,
       event \in BOOLEAN :
        /\ chan.deposit + deposit <= MaxDeposit
        /\ chan.state # "open" => account_balance = 0
        /\ LET r == topup(chan, deposit, account_balance, event)
           IN  /\ event => r.tx # "none"
               /\ chan' = r.chan
               /\ last' = [Done("topup", deposit, r) EXCEPT
                              !.event = event,
                              !.account_balance = account_balance]
               /\ hist' = Track(r.chan)
               /\ UNCHANGED <<opened, sync, ledger, callers>>

Close ==
    \E override \in BOOLEAN, balance \in 0..(MaxDeposit + 1),
       event \in BOOLEAN :
        /\ ~override => balance = 0
        /\ LET r == close(chan, override, balance, event)
           IN  /\ event => r.tx # "none"
               /\ chan' = r.chan
               /\ last' = [Done("close", balance, r) EXCEPT
                              !.override = override, !.event = event]
               /\ hist' = Track(r.chan)
               /\ UNCHANGED <<opened, sync, ledger, callers>>

\* the closing signature is made by the receiver, by the owner of the contract
\* receiver or by a third party, over the channel's balance or over another
CloseCooperatively ==
    \E signer \in Signers, balance \in {chan.balance, chan.balance + 1},
       contract_receiver_owner \in Signers \cup {NoOwner},
       event \in BOOLEAN :
        LET closing_sig == sign_close(KeyOf(signer), chan.sender, chan.block,
                                      balance, ChannelManager)
            r == close_cooperatively(chan, closing_sig,
                                     contract_receiver_owner, event)
        IN  /\ event => r.tx # "none"
            /\ chan' = r.chan
            /\ last' = [Done("close_cooperatively", 0, r) EXCEPT
                           !.closing_sig = closing_sig,
                           !.owner = contract_receiver_owner,
                           !.event = event]
            /\ hist' = Track(r.chan)
            /\ UNCHANGED <<opened, sync, ledger, callers>>

Settle ==
    \E wait_remaining \in -1..1, event \in BOOLEAN :
        LET r == settle(chan, wait_remaining, event)
        IN  /\ event => r.tx # "none"
            /\ chan' = r.chan
            /\ last' = [Done("settle", wait_remaining, r) EXCEPT
                           !.event = event]
            /\ hist' = Track(r.chan)
            /\ UNCHANGED <<opened, sync, ledger, callers>>

WaitDbotSync ==
    \E retry_times \in {0, DefaultRetryTimes},
       dbot_channel \in DbotChannelInfos :
        /\ SyncLoopEnds(chan, retry_times, dbot_channel)
        /\ LET r == wait_dbot_sync(chan, retry_times, dbot_channel)
           IN  /\ chan' = r.chan
               /\ last' = Done("wait_dbot_sync", retry_times, r)
               /\ hist' = Track(r.chan)
               /\ UNCHANGED <<opened, sync, ledger, callers>>

Next ==
    \/ CreateTransfer
    \/ Topup
    \/ Close
    \/ CloseCooperatively
    \/ Settle
    \/ WaitDbotSync

Spec == Init /\ [][Next]_vars

(***************************************************************************)
(* Atn.wait_dbot_sync step by step: the first get_dbot_channel, each turn  *)
(* of the loop, and what follows the loop.                                 *)
(***************************************************************************)
\* atn.py:125  the condition of the loop
SyncLoopCondition(c, s) ==
    s.retry_times > 0 /\ ~Synced(c, s.dbot_channel)

\* atn.py:117-124  the call: get_channel finds the channel, the server is
\* asked once, remain_times starts at retry_times
SyncCall ==
    \E retry_times \in {0, DefaultRetryTimes},
       dbot_channel \in DbotChannelInfos :
        /\ sync.pc = "idle"
        /\ opened
        /\ sync' = [pc |-> "loop", retry_times |-> retry_times,
                    remain_times |-> retry_times,
                    dbot_channel |-> dbot_channel, polls |-> 0]
        /\ UNCHANGED <<chan, last, hist, opened, ledger, callers>>

\* atn.py:125-130  one turn of the loop: remain_times is counted down, the
\* server is asked again
SyncPoll ==
    \E dbot_channel \in DbotChannelInfos :
        /\ sync.pc = "loop"
        /\ SyncLoopCondition(chan, sync)
        /\ sync.polls < MaxPolls
        /\ sync' = [sync EXCEPT !.remain_times = @ - 1,
                                !.dbot_channel = dbot_channel,
                                !.polls = @ + 1]
        /\ UNCHANGED <<chan, last, hist, opened, ledger, callers>>

\* atn.py:131-134  after the loop: the server's balance is adopted, or
\* AtnException is raised
SyncReturn ==
    /\ sync.pc = "loop"
    /\ ~SyncLoopCondition(chan, sync)
    /\ LET r == wait_dbot_sync(chan, sync.retry_times, sync.dbot_channel)
       IN  /\ chan' = r.chan
           /\ last' = Done("wait_dbot_sync", sync.retry_times, r)
           /\ hist' = Track(r.chan)
    /\ sync' = SyncIdle
    /\ UNCHANGED <<opened, ledger, callers>>

NextSync ==
    \/ SyncCall
    \/ SyncPoll
    \/ SyncReturn

SpecSync == Init /\ [][NextSync]_vars

(***************************************************************************)
(* Atn: the paid call (call_dbot_api) and its choice of a channel          *)
(* (get_suitable_channel).  opened says whether a channel with the payee   *)
(* was ever opened; the payee is a DBot contract.                          *)
(***************************************************************************)
\* one transaction submitted during a call
Tx(name, arg) == [name |-> name, arg |-> arg]
TxOf(r) == IF r.tx = "none" THEN <<>> ELSE <<Tx(r.tx, r.tx_arg)>>

\* Client.get_channels: the channels with the payee that are not closed
get_channels(o, c) == IF o /\ c.state # "closed" THEN <<c>> ELSE <<>>

\* atn.py:260-266  Atn.get_channel, TRUE when it gives a channel
get_channel(o, c) == Len(get_channels(o, c)) > 0

\* atn.py:117-134  a call of wait_dbot_sync with the default retry_times that
\* ends: answer < 0 when the request to the server raises (requests.get,
\* atn.py:109), otherwise the server reports the channel's deposit and answer
\* is the balance it reports
wait_dbot_sync_default(o, c, answer) ==
    IF ~get_channel(o, c) THEN Res(c, "returned", NoSig, "none", 0, FALSE)
    ELSE IF answer < 0
         THEN Res(c, "ConnectionError", NoSig, "none", 0, FALSE)
         ELSE wait_dbot_sync(c, DefaultRetryTimes,
                             [ok |-> TRUE, deposit |-> c.deposit,
                              balance |-> answer])

\* Client.get_suitable_channel: the channel with the payee if there is one,
\* otherwise a channel opened with the deposit the strategy gives; event
\* whether the ChannelCreated event is seen
Client_get_suitable_channel(o, c, amount, event) ==
    IF get_channel(o, c)
    THEN [found |-> TRUE, chan |-> c, opened |-> o, txs |-> <<>>]
    ELSE IF event
         THEN [found |-> TRUE, chan |-> NewChannel(c.receiver, amount),
               opened |-> TRUE, txs |-> <<Tx("createChannel", amount)>>]
         ELSE [found |-> FALSE, chan |-> c, opened |-> o,
               txs |-> <<Tx("createChannel", amount)>>]

\* how get_suitable_channel ends: the channel, the way it ended, whether the
\* server was seen in sync, the transactions
Got(c, o, ret, synced, txs) ==
    [chan |-> c, opened |-> o, ret |-> ret, synced |-> synced, txs |-> txs]

\* a get_suitable_channel that, with no strategy, gives the channel without
\* looking at its remaining balance
get_suitable_channel_any(o, c, price, configured, amount, e) ==
    IF ~get_channel(o, c)
    THEN Got(c, o, "AtnException", FALSE, <<>>)
    ELSE Got(c, o, "returned", FALSE, <<>>)

\* atn.py:136-163  Atn.get_suitable_channel; configured says whether
\* deposit_strategy is not None, amount is deposit_strategy(price), e holds
\* the answers of the ledger and the server
get_suitable_channel(o, c, price, configured, amount, e) ==
    IF ~configured
    THEN IF ~get_channel(o, c)
         THEN Got(c, o, "AtnException", FALSE, <<>>)
         ELSE IF ~is_suitable(c, price)
              THEN Got(c, o, "AtnException", FALSE, <<>>)
              ELSE Got(c, o, "returned", FALSE, <<>>)
    ELSE LET f == Client_get_suitable_channel(o, c, amount, e.open_event)
             s1 == wait_dbot_sync_default(f.opened, f.chan, e.sync1)
             t == topup(s1.chan, amount, e.account_balance, e.topup_event)
             s2 == wait_dbot_sync_default(
                       f.opened, t.chan,
                       IF e.sync2_raises THEN -1 ELSE e.sync1)
         IN  IF ~f.found
             THEN Got(c, o, "AtnException", FALSE, f.txs)
             ELSE IF s1.ret # "returned"
             THEN Got(s1.chan, f.opened, s1.ret, FALSE, f.txs)
             ELSE IF remain_balance(s1.chan) < price
             THEN Got(s2.chan, f.opened, s2.ret, s2.ret = "returned",
                      f.txs \o TxOf(t))
             ELSE Got(s1.chan, f.opened, "returned", TRUE, f.txs)

\* a call_dbot_api that looks for the channel before it looks at the price
call_dbot_api_late(o, c, price, configured, amount, e) ==
    LET g == get_suitable_channel(o, c, price, configured, amount, e)
    IN  [chan |-> g.chan, opened |-> g.opened, ret |-> "AtnException",
         call |-> [NoCall EXCEPT !.configured = configured,
                                 !.amount = amount,
                                 !.existed = get_channel(o, c),
                                 !.txs = g.txs]]

\* atn.py:165-173, 268-294  Atn.call_dbot_api and the request it sends, whose
\* headers carry the channel's balance and signature
call_dbot_api(o, c, price, configured, amount, e) ==
    LET g == get_suitable_channel(o, c, price, configured, amount, e)
        t == create_transfer(g.chan, price)
        found == [NoCall EXCEPT !.configured = configured,
                                !.amount = amount,
                                !.existed = get_channel(o, c),
                                !.gsc = g.ret,
                                !.gsc_remain = remain_balance(g.chan),
                                !.synced = g.synced,
                                !.txs = g.txs]
    IN  IF price = 0
        THEN [chan |-> c, opened |-> o, ret |-> "AtnException",
              call |-> [NoCall EXCEPT !.configured = configured,
                                      !.amount = amount,
                                      !.existed = get_channel(o, c)]]
        ELSE IF g.ret # "returned"
        THEN [chan |-> g.chan, opened |-> g.opened, ret |-> g.ret,
              call |-> found]
        ELSE [chan |-> t.chan, opened |-> g.opened, ret |-> "response",
              call |-> [found EXCEPT !.transfer = t.ret,
                                     !.paid_from = g.chan.balance,
                                     !.request = TRUE,
                                     !.req_balance = t.chan.balance,
                                     !.req_sig = t.chan.balance_sig]]

(***************************************************************************)
(* Atn: the opening of a channel (open_channel).                           *)
(***************************************************************************)
\* Client.open_channel: submits createChannel with the deposit and gives the
\* new channel when the ChannelCreated event is seen, None otherwise
Client_open_channel(o, c, deposit, event) ==
    IF event
    THEN [chan |-> NewChannel(c.receiver, deposit), opened |-> TRUE,
          ret |-> "channel", txs |-> <<Tx("createChannel", deposit)>>]
    ELSE [chan |-> c, opened |-> o,
          ret |-> "None", txs |-> <<Tx("createChannel", deposit)>>]

\* an open_channel that does not look for a channel first
open_channel_again(o, c, deposit, event) ==
    Client_open_channel(o, c, deposit, event)

\* atn.py:175-180  Atn.open_channel
open_channel(o, c, deposit, event) ==
    IF get_channel(o, c)
    THEN [chan |-> c, opened |-> o, ret |-> "channel", txs |-> <<>>]
    ELSE Client_open_channel(o, c, deposit, event)

(***************************************************************************)
(* Atn: the closing of a channel (close_channel).                          *)
(***************************************************************************)
\* how a part of close_channel ends
Ended(c, ret, close0, txs) ==
    [chan |-> c, ret |-> ret, close0 |-> close0, txs |-> txs]

\* atn.py:246-251  Atn.uncooperative_close
uncooperative_close(o, c, balance, event) ==
    IF ~get_channel(o, c) THEN Ended(c, "None", FALSE, <<>>)
    ELSE LET r == close(c, TRUE, balance, event)
         IN  Ended(r.chan, "None", TRUE, TxOf(r))

\* a fallback that closes on the channel's balance
on_cooperative_close_denied_keep(o, c, has_response, event) ==
    IF ~has_response THEN Ended(c, "AttributeError", FALSE, <<>>)
    ELSE uncooperative_close(o, c, c.balance, event)

\* atn.py:240-244  Atn.on_cooperative_close_denied; has_response says whether
\* response is not None (response.text is read first)
on_cooperative_close_denied(o, c, has_response, event) ==
    IF ~has_response THEN Ended(c, "AttributeError", FALSE, <<>>)
    ELSE uncooperative_close(o, c, 0, event)

\* atn.py:185-238  Atn.close_channel; e holds the answer of the server to
\* wait_dbot_sync, the outcome of the DELETE request ("ConnectionError",
\* "denied" for a status other than 200, "ok"), the signer of the closing
\* signature and how far the balance it signs is from the channel's, and
\* whether the events of the two closes are seen
close_channel(o, c, e) ==
    LET s == wait_dbot_sync_default(o, c, e.sync)
        c1 == s.chan
        closing_sig == sign_close(KeyOf(e.signer), c1.sender, c1.block,
                                  c1.balance + e.off, ChannelManager)
        cc == close_cooperatively(c1, closing_sig, DbotOwner, e.coop_event)
        failed == e.delete # "ok" \/ cc.ret = "None"
        c2 == IF e.delete = "ok" THEN cc.chan ELSE c1
        cctxs == IF e.delete = "ok" THEN TxOf(cc) ELSE <<>>
        d == on_cooperative_close_denied(o, c2, e.delete # "ConnectionError",
                                         e.close_event)
        synced == [NoCall EXCEPT !.existed = TRUE, !.synced = TRUE,
                                 !.req_balance = c1.balance]
    IN  IF ~get_channel(o, c)
        THEN [chan |-> c, ret |-> "None", call |-> NoCall]
        ELSE IF s.ret # "returned"
        THEN [chan |-> c, ret |-> "UnboundLocalError",
              call |-> [NoCall EXCEPT !.existed = TRUE]]
        ELSE IF ~failed
        THEN [chan |-> cc.chan, ret |-> "None",
              call |-> [synced EXCEPT !.coop = "closed", !.txs = cctxs]]
        ELSE [chan |-> d.chan, ret |-> d.ret,
              call |-> [synced EXCEPT
                           !.coop = IF e.delete = "ConnectionError"
                                    THEN "no response"
                                    ELSE IF e.delete = "denied"
                                         THEN "bad status"
                                         ELSE "rejected",
                           !.close0 = d.close0,
                           !.txs = cctxs \o d.txs]]

\* the answers of the ledger and the server when none is asked for
NoAnswers ==
    [open_event |-> FALSE, sync1 |-> 0, account_balance |-> 0,
     topup_event |-> FALSE, sync2_raises |-> FALSE]

Answers ==
    [open_event : BOOLEAN, sync1 : -1..MaxDeposit,
     account_balance : {0, MaxTopup}, topup_event : BOOLEAN,
     sync2_raises : BOOLEAN]

\* the answers a call of call_dbot_api can get: an event or none for the
\* channel it opens, a failed request or a balance within the deposit from
\* the server, and, when the remaining balance after that is below the price,
\* the answers to the topup and to the second wait_dbot_sync; what the call
\* does not ask for is as in NoAnswers
AnswersTo(o, c, price, configured, amount) ==
    IF ~configured \/ price = 0 THEN {NoAnswers}
    ELSE LET deposit == IF get_channel(o, c) THEN c.deposit ELSE amount
         IN  {e \in Answers :
                 /\ get_channel(o, c) => ~e.open_event
                 /\ e.sync1 <= deposit
                 /\ e.account_balance < amount => ~e.topup_event
                 /\ ( \/ ~get_channel(o, c) /\ ~e.open_event
                      \/ e.sync1 < 0
                      \/ deposit - e.sync1 >= price )
                        => /\ e.account_balance = NoAnswers.account_balance
                           /\ e.topup_event = NoAnswers.topup_event
                           /\ e.sync2_raises = NoAnswers.sync2_raises
                 /\ (~get_channel(o, c) /\ ~e.open_event)
                        => e.sync1 = NoAnswers.sync1}

\* with a strategy configured the call is followed when there is no channel
\* yet or the channel is open; a channel is opened with a positive deposit
CallDbotApi ==
    \E price \in 0..MaxValue, configured \in BOOLEAN, amount \in 0..MaxTopup :
        /\ configured => (~opened \/ chan.state = "open")
        /\ (configured /\ ~opened) => amount >= 1
        /\ ~configured => amount = 0
        /\ \E e \in AnswersTo(opened, chan, price, configured, amount) :
               LET r == call_dbot_api(opened, chan, price, configured,
                                      amount, e)
               IN  /\ r.chan.deposit <= MaxDeposit
                   /\ chan' = r.chan
                   /\ opened' = r.opened
                   /\ last' = [NoOp EXCEPT !.op = "call_dbot_api",
                                           !.pre = chan, !.arg = price,
                                           !.ret = r.ret, !.call = r.call]
                   /\ hist' = Track(r.chan)
                   /\ UNCHANGED <<sync, ledger, callers>>

\* the server reports a balance within the deposit; the closing signature is
\* the owner's or a third party's, over the channel's balance or another
CloseChannel ==
    \E e \in [sync : -1..chan.deposit,
              delete : {"ConnectionError", "denied", "ok"},
              signer : {DbotOwner, Mallory}, off : {0, 1},
              coop_event : BOOLEAN, close_event : BOOLEAN] :
        LET r == close_channel(opened, chan, e)
        IN  /\ r.call.coop = "not run" =>
                   e.sync <= 0 /\ e.delete = "ok" /\ ~e.close_event
            /\ e.delete # "ok" =>
                   e.signer = DbotOwner /\ e.off = 0 /\ ~e.coop_event
            /\ r.call.coop \in {"closed", "no response"} => ~e.close_event
            /\ chan' = r.chan
            /\ last' = [NoOp EXCEPT !.op = "close_channel", !.pre = chan,
                                    !.ret = r.ret, !.call = r.call]
            /\ hist' = Track(r.chan)
            /\ UNCHANGED <<opened, sync, ledger, callers>>

\* when a channel is found no event is waited for
OpenChannel ==
    \E deposit \in 1..MaxDeposit, event \in BOOLEAN :
        /\ get_channel(opened, chan) => ~event
        /\ LET r == open_channel(opened, chan, deposit, event)
           IN  /\ chan' = r.chan
               /\ opened' = r.opened
               /\ last' = [NoOp EXCEPT
                              !.op = "open_channel", !.pre = chan,
                              !.arg = deposit, !.event = event,
                              !.ret = r.ret,
                              !.call = [NoCall EXCEPT
                                           !.existed =
                                               get_channel(opened, chan),
                                           !.txs = r.txs]]
               /\ hist' = Track(r.chan)
               /\ UNCHANGED <<sync, ledger, callers>>

\* no channel with the payee yet, or one found on the ledger with balance 0
InitAtn ==
    /\ opened \in BOOLEAN
    /\ \E deposit \in 0..MaxDeposit :
           /\ opened <=> deposit >= 1
           /\ chan = NewChannel(ReceiverDbot, deposit)
    /\ last = [NoOp EXCEPT !.pre = chan]
    /\ hist = [base |-> 0, sum |-> 0]
    /\ sync = SyncIdle
    /\ ledger = NoLedger
    /\ callers = NoCallers

NextAtn ==
    \/ CallDbotApi
    \/ CloseChannel
    \/ OpenChannel

SpecAtn == InitAtn /\ [][NextAtn]_vars

(***************************************************************************)
(* The claims.  chan is the channel before a step and chan' the channel    *)
(* after it; last' names the operation the step performed.                 *)
(***************************************************************************)

\* C1: in every reachable state the channel's balance is at least 0 and at
\* most its deposit.
C1_BalanceWithinDeposit ==
    0 <= chan.balance /\ chan.balance <= chan.deposit

\* C2: create_transfer(v) with v >= 0 on an open channel whose remaining
\* balance is at least v adds exactly v to the balance, leaves deposit and
\* state alone and returns the stored signature, which is the signature over
\* (receiver, open block, new balance, contract); so the balance is always the
\* balance the transfers started from plus the sum of the transfers made.
C2_TransferAddsValue ==
    [][ /\ ( /\ last'.op = "create_transfer"
             /\ chan.state = "open"
             /\ last'.arg >= 0
             /\ remain_balance(chan) >= last'.arg )
           => /\ chan'.balance = chan.balance + last'.arg
              /\ chan'.deposit = chan.deposit
              /\ chan'.state = chan.state
              /\ remain_balance(chan') = chan.deposit - chan'.balance
              /\ last'.ret = "sig"
              /\ last'.ret_sig = chan'.balance_sig
              /\ chan'.balance_sig =
                     sign_balance_proof(PrivateKey, chan.receiver, chan.block,
                                        chan.balance + last'.arg,
                                        ChannelManager)
        /\ chan'.balance = hist'.base + hist'.sum
      ]_vars

\* C2 happens: a transfer of the largest value succeeds on an open channel
\* after earlier transfers, and uses up the deposit.
C2_Witness ==
    /\ last.op = "create_transfer"
    /\ last.pre.state = "open"
    /\ last.ret = "sig"
    /\ last.arg = MaxValue
    /\ hist.base = 0
    /\ hist.sum = MaxDeposit
    /\ remain_balance(chan) = 0

\* C3: create_transfer(v), v >= 0, on a closed channel, or with v above the
\* remaining balance in any state, returns None and leaves the channel as it
\* was.
C3_FailedTransferChangesNothing ==
    [][ ( /\ last'.op = "create_transfer"
          /\ last'.arg >= 0
          /\ (chan.state = "closed" \/ last'.arg > remain_balance(chan)) )
        => /\ last'.ret = "None"
           /\ chan' = chan
      ]_vars

\* C3 happens: a transfer the remaining balance would cover is refused
\* because the channel is closed.
C3_Witness ==
    /\ last.op = "create_transfer"
    /\ last.pre.state = "closed"
    /\ last.arg >= 1
    /\ last.arg <= remain_balance(last.pre)
    /\ last.ret = "None"
    /\ chan = last.pre

\* C4: create_transfer of a positive value on a channel that is not open
\* (settling or closed) does not succeed and changes neither balance nor
\* signature, also when the remaining balance covers the value.
C4_TransferOnlyWhenOpen ==
    [][ ( /\ last'.op = "create_transfer"
          /\ last'.arg >= 1
          /\ chan.state # "open" )
        => /\ last'.ret # "sig"
           /\ chan'.balance = chan.balance
           /\ chan'.balance_sig = chan.balance_sig
      ]_vars

\* C5: in every reachable state balance_sig is the signature the signer
\* produces over (receiver, open block, current balance, contract address).
C5_SignatureIsCurrent ==
    chan.balance_sig =
        sign_balance_proof(PrivateKey, chan.receiver, chan.block, chan.balance,
                           ChannelManager)

\* C5 happens: the server's balance was adopted and differs from the balance
\* before.
C5_Witness ==
    /\ last.op = "wait_dbot_sync"
    /\ last.ret = "returned"
    /\ chan.balance # last.pre.balance
    /\ chan.balance > 0

\* C6: the state only moves open -> settling, settling -> closed or
\* open -> closed; a closed channel stays closed.
C6_StateMovesForward ==
    [][ chan'.state # chan.state
        => <<chan.state, chan'.state>> \in
               { <<"open", "settling">>, <<"settling", "closed">>,
                 <<"open", "closed">> }
      ]_vars

\* C6 happens: a settling channel was settled and is closed.
C6_Witness ==
    /\ last.op = "settle"
    /\ last.pre.state = "settling"
    /\ chan.state = "closed"

\* C7 as claimed: settling is entered only through a confirmed close and left
\* only through a confirmed settle.
C7_SettlingLeftOnlyBySettle ==
    [][ /\ (chan.state # "settling" /\ chan'.state = "settling")
           => (last'.op = "close" /\ last'.event)
        /\ (chan.state = "settling" /\ chan'.state # "settling")
           => (last'.op = "settle" /\ last'.event)
      ]_vars

\* C7 as amended: settling is entered only through a confirmed close, and
\* left only through a confirmed settle or a confirmed close_cooperatively,
\* both of which close the channel.
C7_SettlingLeftBySettleOrCooperativeClose ==
    [][ /\ (chan.state # "settling" /\ chan'.state = "settling")
           => (last'.op = "close" /\ last'.event)
        /\ (chan.state = "settling" /\ chan'.state # "settling")
           => /\ last'.op \in {"settle", "close_cooperatively"}
              /\ last'.event
              /\ chan'.state = "closed"
      ]_vars

\* C7 happens: a settling channel was closed by close_cooperatively.
C7_Witness ==
    /\ last.op = "close_cooperatively"
    /\ last.pre.state = "settling"
    /\ last.event
    /\ chan.state = "closed"

\* C8: close_cooperatively with a closing signature that does not recover to
\* the receiver (to the owner passed, when the receiver is a contract) submits
\* no transaction, returns None and leaves the channel as it was.
C8_BadClosingSignatureRefused ==
    [][ ( /\ last'.op = "close_cooperatively"
          /\ getCode(chan.receiver) => last'.owner # NoOwner
          /\ verify_closing_sig(chan.sender, chan.block, chan.balance,
                                last'.closing_sig, ChannelManager)
               # (IF getCode(chan.receiver) THEN last'.owner
                                           ELSE chan.receiver) )
        => /\ last'.tx = "none"
           /\ last'.ret = "None"
           /\ chan' = chan
      ]_vars

\* C8 happens: on a settling channel to a contract receiver, a closing
\* signature over the right message but signed by a third party is refused
\* when the owner is passed.
C8_Witness ==
    /\ last.op = "close_cooperatively"
    /\ last.pre.state = "settling"
    /\ getCode(last.pre.receiver)
    /\ last.owner = DbotOwner
    /\ last.closing_sig =
           sign_close(KeyOf(Mallory), last.pre.sender, last.pre.block,
                      last.pre.balance, ChannelManager)
    /\ last.ret = "None"
    /\ last.tx = "none"
    /\ chan = last.pre

\* C9: a topup on an open channel whose transaction is sent but whose
\* ChannelToppedUp event is not seen returns None and leaves deposit, balance,
\* signature and state as they were.
C9_TopupTimeoutChangesNothing ==
    [][ ( /\ last'.op = "topup"
          /\ chan.state = "open"
          /\ last'.tx = "topUp"
          /\ ~last'.event )
        => /\ last'.ret = "None"
           /\ chan' = chan
      ]_vars

\* C9 happens: a topup of a positive amount was sent on an open channel and
\* timed out.
C9_Witness ==
    /\ last.op = "topup"
    /\ last.pre.state = "open"
    /\ last.arg = MaxTopup
    /\ last.tx = "topUp"
    /\ ~last.event
    /\ last.ret = "None"
    /\ chan.deposit = last.pre.deposit

\* C10: an operation that submitted a transaction and saw no event leaves the
\* channel as it was.
C10_TimeoutChangesNothing ==
    [][ (last'.tx # "none" /\ ~last'.event) => chan' = chan ]_vars

\* C11: a call of wait_dbot_sync asks the server at most retry_times more
\* times after its first request (and then raises AtnException).
C11_SyncGivesUp ==
    sync.pc = "loop" => sync.polls <= sync.retry_times

\* C12: in call_dbot_api, create_transfer and the HTTP request are executed
\* only after the server was seen, in the same call, to report the channel's
\* deposit, whether or not a deposit strategy is configured.
C12_PaysOnlyAfterSync ==
    ( /\ last.op = "call_dbot_api"
      /\ (last.call.transfer # "not run" \/ last.call.request) )
        => last.call.synced

\* C13: with a deposit strategy configured, the channel that
\* get_suitable_channel returns has a remaining balance of at least the price.
C13_SuitableChannelHasCapacity ==
    ( /\ last.op = "call_dbot_api"
      /\ last.call.configured
      /\ last.call.gsc = "returned" )
        => last.call.gsc_remain >= last.arg

\* C14: call_dbot_api issues the HTTP request only when create_transfer(price)
\* succeeded, so the request carries a balance exactly price above the balance
\* before the transfer.
C14_RequestOnlyAfterTransfer ==
    (last.op = "call_dbot_api" /\ last.call.request)
        => /\ last.call.transfer = "sig"
           /\ last.call.req_balance = last.call.paid_from + last.arg

\* C15: when the cooperative close of an existing channel fails (no response
\* to the DELETE request, a status other than 200, close_cooperatively
\* returning None), close_channel invokes Channel.close(0) and ends without
\* an exception.
C15_DeniedCloseFallsBack ==
    ( /\ last.op = "close_channel"
      /\ last.call.coop \in {"no response", "bad status", "rejected"} )
        => /\ last.call.close0
           /\ last.ret = "None"

\* C16: every uncooperativeClose transaction that close_channel submits
\* carries balance 0, and the channel's balance and signature are then those
\* of balance 0.
C16_UncooperativeCloseAtZero ==
    last.op = "close_channel" =>
        \A i \in DOMAIN last.call.txs :
            last.call.txs[i].name = "uncooperativeClose"
                => /\ last.call.txs[i].arg = 0
                   /\ chan.balance = 0
                   /\ chan.balance_sig =
                          sign_balance_proof(PrivateKey, chan.receiver,
                                             chan.block, 0, ChannelManager)

\* a channel that held a balance above 0 was closed without the server
C16_Witness ==
    /\ last.op = "close_channel"
    /\ last.call.req_balance > 0
    /\ \E i \in DOMAIN last.call.txs :
           last.call.txs[i].name = "uncooperativeClose"

\* C17: settle() on a settling channel submits nothing, returns None and
\* leaves the channel as it is while the current block is below the
\* settlement block (wait_remaining > 0); from the settlement block on it
\* submits a settle transaction, and the state becomes closed when the
\* ChannelSettled event is seen.
C17_SettleWaitsForSettlementBlock ==
    [][ (last'.op = "settle" /\ chan.state = "settling")
           => IF last'.arg > 0
              THEN /\ last'.tx = "none"
                   /\ last'.ret = "None"
                   /\ chan' = chan
              ELSE /\ last'.tx = "settle"
                   /\ last'.event => chan'.state = "closed"
                   /\ ~last'.event => chan' = chan ]_vars

\* a settle at the settlement block whose event was seen
C17_Witness ==
    /\ last.op = "settle"
    /\ last.pre.state = "settling"
    /\ last.arg = 0
    /\ last.event
    /\ last.tx = "settle"
    /\ chan.state = "closed"

\* C18: while the channel is open, no operation lowers its balance.
C18_BalanceNeverDecreasesWhileOpen ==
    [][ (chan.state = "open" /\ chan'.state = "open")
           => chan'.balance >= chan.balance ]_vars

\* C19 as stated: a successful create_transfer is the only operation that
\* leaves the balance higher than it was.
C19_OnlyTransferRaisesBalance ==
    [][ chan'.balance > chan.balance
           => (last'.op = "create_transfer" /\ last'.ret = "sig") ]_vars

\* C19: a step that leaves the balance higher is a successful
\* create_transfer, a wait_dbot_sync that adopts the balance the server
\* reports, or a close with a balance passed, which sets that balance; topup,
\* close without a balance, close_cooperatively and settle never raise it.
C19_WhatRaisesBalance ==
    [][ chan'.balance > chan.balance
           => \/ last'.op = "create_transfer" /\ last'.ret = "sig"
              \/ last'.op = "wait_dbot_sync" /\ last'.ret = "returned"
              \/ /\ last'.op = "close"
                 /\ last'.override
                 /\ chan'.balance = last'.arg ]_vars

\* a wait_dbot_sync adopted a balance above the channel's
C19_Witness ==
    /\ last.op = "wait_dbot_sync"
    /\ last.ret = "returned"
    /\ chan.state = "open"
    /\ chan.balance > last.pre.balance

\* C20: topup or close on a channel that is not open (whether or not a
\* balance is passed), settle on a channel that is not settling and
\* close_cooperatively on a closed channel submit no transaction, return None
\* and leave deposit, balance, signature and state as they were.
C20_WrongStateChangesNothing ==
    [][ ( \/ last'.op \in {"topup", "close"} /\ chan.state # "open"
          \/ last'.op = "settle" /\ chan.state # "settling"
          \/ last'.op = "close_cooperatively" /\ chan.state = "closed" )
           => /\ last'.tx = "none"
              /\ last'.ret = "None"
              /\ chan' = chan ]_vars

\* a close with another balance passed was refused on a settling channel
C20_Witness ==
    /\ last.op = "close"
    /\ last.override
    /\ last.pre.state = "settling"
    /\ last.arg # last.pre.balance
    /\ last.arg <= last.pre.deposit
    /\ chan = last.pre

(***************************************************************************)
(* Atn._request: the payment headers of a request.  A set of headers is a  *)
(* function from header names to values; a value is tagged with the        *)
(* conversion that made it.                                                *)
(***************************************************************************)
\* str(n), encode_hex(sig), an address and any other text as header values
str(n) == <<"str", n>>
encode_hex(sig) == <<"hex", sig>>
addr(a) == <<"addr", a>>
text(t) == <<"text", t>>

\* the fields _request sets, and those it sets for a channel
PaymentFields ==
    {"contract_address", "balance", "balance_signature", "sender_address",
     "receiver_address", "open_block"}
ChannelFields == PaymentFields \ {"contract_address"}

\* HTTPHeaders.serialize: each field under the header name of its own
HeaderName ==
    [contract_address |-> "RDN-Contract-Address",
     balance |-> "RDN-Balance",
     balance_signature |-> "RDN-Balance-Signature",
     sender_address |-> "RDN-Sender-Address",
     receiver_address |-> "RDN-Receiver-Address",
     open_block |-> "RDN-Open-Block"]

serialize(headers) ==
    [n \in {HeaderName[f] : f \in DOMAIN headers} |->
        headers[CHOOSE f \in DOMAIN headers : HeaderName[f] = n]]

\* dict.update: the entries of other replace those of the same name
update(headers, other) ==
    [n \in DOMAIN headers \cup DOMAIN other |->
        IF n \in DOMAIN other THEN other[n] ELSE headers[n]]

\* how a part of _request ends: the headers built and those sent
Requested(built, sent) == [built |-> built, sent |-> sent]

\* a _request that builds the channel's fields whether it has a channel or not
request_always(c, has_channel, with_headers, caller) ==
    LET headers ==
            [contract_address |-> addr(ChannelManager),
             balance |-> str(c.balance),
             balance_signature |-> encode_hex(c.balance_sig),
             sender_address |-> addr(c.sender),
             receiver_address |-> addr(c.receiver),
             open_block |-> str(c.block)]
        built == serialize(headers)
    IN  Requested(built,
                  IF with_headers THEN update(built, caller) ELSE built)

\* atn.py:268-294  Atn._request; has_channel says whether channel is not
\* None, with_headers whether the caller passed a headers argument
request(c, has_channel, with_headers, caller) ==
    LET headers ==
            IF has_channel
            THEN [contract_address |-> addr(ChannelManager),
                  balance |-> str(c.balance),
                  balance_signature |-> encode_hex(c.balance_sig),
                  sender_address |-> addr(c.sender),
                  receiver_address |-> addr(c.receiver),
                  open_block |-> str(c.block)]
            ELSE [contract_address |-> addr(ChannelManager)]
        built == serialize(headers)
    IN  Requested(built,
                  IF with_headers THEN update(built, caller) ELSE built)

\* the headers a caller may pass: none of the payment headers' names, or a
\* balance or a sender address of its own under the payment header's name
CallerHeaders ==
    {<<>>,
     [n \in {"Content-Type"} |-> text("application/json")],
     [n \in {"Content-Type", "RDN-Balance"} |->
         IF n = "RDN-Balance" THEN str(0) ELSE text("application/json")],
     [n \in {"RDN-Sender-Address"} |-> addr(Mallory)]}

Request ==
    \E has_channel \in BOOLEAN, with_headers \in BOOLEAN,
       caller \in CallerHeaders :
        /\ ~with_headers => caller = <<>>
        /\ LET r == request(chan, has_channel, with_headers, caller)
           IN  last' = [NoOp EXCEPT
                          !.op = "_request", !.pre = chan,
                          !.call = [NoCall EXCEPT
                                       !.request = TRUE,
                                       !.has_channel = has_channel,
                                       !.with_headers = with_headers,
                                       !.caller = caller,
                                       !.built = r.built,
                                       !.sent = r.sent]]
        /\ UNCHANGED <<chan, hist, opened, sync, ledger, callers>>

\* requests sent for a channel that pays in between
NextRequest ==
    \/ CreateTransfer
    \/ Request

SpecRequest == Init /\ [][NextRequest]_vars

(***************************************************************************)
(* get_event_blocking: the polling for an event of the contract.           *)
(***************************************************************************)
MaxTimeout == 3
MaxWait == 2

\* the logs the node may hold, and the lists get_logs may return
Logs == {"log1", "log2"}
LogLists ==
    {<<>>} \cup {<<a>> : a \in Logs}
           \cup {<<a, b>> : <<a, b>> \in {x \in Logs \X Logs : x[1] # x[2]}}

Conditions ==
    {NoCondition} \cup {[given |-> TRUE, accepts |-> A] : A \in SUBSET Logs}

\* Python's range(start, stop, step) for a step other than 0
RECURSIVE range(_, _, _)
range(start, stop, step) ==
    IF (step > 0 /\ start >= stop) \/ (step < 0 /\ start <= stop)
    THEN <<>>
    ELSE <<start>> \o range(start + step, stop, step)

\* a matching_logs that takes every log
matching_logs_all(logs, condition) == logs

\* contract.py:103  [event for event in logs
\*                   if not condition or condition(event)]
matching_logs(logs, condition) ==
    LET matches(event) == ~condition.given \/ event \in condition.accepts
    IN  SelectSeq(logs, matches)

\* contract.py:95-109  the loop of get_event_blocking from the k-th value of
\* its range, after waits calls of _wait
RECURSIVE poll_from(_, _, _, _, _, _)
poll_from(is, k, waits, answers, condition, timeout) ==
    IF k > Len(is)
    THEN [ret |-> "None", event |-> "none", polls |-> k - 1, waits |-> waits]
    ELSE LET matching == matching_logs(answers[k], condition)
         IN  IF matching # <<>>
             THEN [ret |-> "event", event |-> matching[1],
                   polls |-> k, waits |-> waits]
             ELSE poll_from(is, k + 1,
                            IF is[k] < timeout THEN waits + 1 ELSE waits,
                            answers, condition, timeout)

\* a get_event_blocking whose range ends at the timeout
get_event_blocking_short(answers, condition, wait, timeout) ==
    IF wait = 0
    THEN [ret |-> "ValueError", event |-> "none", polls |-> 0, waits |-> 0]
    ELSE poll_from(range(0, timeout, wait), 1, 0,
                   answers, condition, timeout)

\* contract.py:85-109  get_event_blocking; range raises ValueError for a
\* step of 0
get_event_blocking(answers, condition, wait, timeout) ==
    IF wait = 0
    THEN [ret |-> "ValueError", event |-> "none", polls |-> 0, waits |-> 0]
    ELSE poll_from(range(0, timeout + wait, wait), 1, 0,
                   answers, condition, timeout)

\* the arguments of a call and the logs the node holds at each poll the loop
\* can make; once a poll has a matching log the later ones are not asked
InitEvent ==
    /\ chan = NewChannel(ReceiverEOA, 1)
    /\ opened = TRUE
    /\ hist = [base |-> 0, sum |-> 0]
    /\ sync = SyncIdle
    /\ ledger = NoLedger
    /\ callers = NoCallers
    /\ \E timeout \in 0..MaxTimeout, wait \in -1..MaxWait,
          condition \in Conditions :
           LET n == IF wait = 0 THEN 0
                    ELSE Len(range(0, timeout + wait, wait))
           IN  \E answers \in [1..n -> LogLists] :
                   /\ \A k \in 1..n :
                          (\E j \in 1..(k - 1) :
                               matching_logs(answers[j], condition) # <<>>)
                              => answers[k] = <<>>
                   /\ last = [NoOp EXCEPT
                                 !.pre = chan,
                                 !.poll = [NoPoll EXCEPT
                                              !.timeout = timeout,
                                              !.wait = wait,
                                              !.condition = condition,
                                              !.answers = answers]]

GetEventBlocking ==
    /\ last.op = "init"
    /\ LET p == last.poll
           r == get_event_blocking(p.answers, p.condition, p.wait, p.timeout)
       IN  last' = [last EXCEPT !.op = "get_event_blocking",
                                !.poll = [p EXCEPT !.ret = r.ret,
                                                   !.event = r.event,
                                                   !.polls = r.polls,
                                                   !.waits = r.waits]]
    /\ UNCHANGED <<chan, hist, opened, sync, ledger, callers>>

NextEvent == GetEventBlocking

SpecEvent == InitEvent /\ [][NextEvent]_vars

(***************************************************************************)
(* Atn with the deposit strategy of its constructor's default.            *)
(***************************************************************************)
MaxPrice == 100

\* a strategy that deposits the price itself
default_deposit_strategy_price(value) == value

\* atn.py:47  the default of deposit_strategy, lambda value: 10 * value
default_deposit_strategy(value) == 10 * value

\* the answers to a call with the default strategy: the server fails, or
\* reports nothing paid yet, or reports the whole deposit as paid; the account
\* holds nothing or the amount of the topup; canonical as in AnswersTo
DefaultAnswersTo(o, c, price) ==
    LET amount == default_deposit_strategy(price)
        deposit == IF get_channel(o, c) THEN c.deposit ELSE amount
    IN  IF price = 0 THEN {NoAnswers}
        ELSE {e \in [open_event : BOOLEAN, sync1 : {-1, 0, deposit},
                     account_balance : {0, amount}, topup_event : BOOLEAN,
                     sync2_raises : BOOLEAN] :
                 /\ get_channel(o, c) => ~e.open_event
                 /\ e.account_balance < amount => ~e.topup_event
                 /\ ( \/ ~get_channel(o, c) /\ ~e.open_event
                      \/ e.sync1 < 0
                      \/ deposit - e.sync1 >= price )
                        => /\ e.account_balance = NoAnswers.account_balance
                           /\ e.topup_event = NoAnswers.topup_event
                           /\ e.sync2_raises = NoAnswers.sync2_raises
                 /\ (~get_channel(o, c) /\ ~e.open_event)
                        => e.sync1 = NoAnswers.sync1}

\* atn.py:42-60, 165-173  call_dbot_api of an Atn constructed without a
\* deposit_strategy argument; the call is followed up to the first one for a
\* priced endpoint, with no channel with the payee or the one found on the
\* ledger, which has paid nothing yet
CallDbotApiDefault ==
    \E price \in 0..MaxPrice :
        /\ last.arg = 0
        /\ get_channel(opened, chan) =>
               (chan.state = "open" /\ chan.balance = 0
                    /\ chan.deposit <= MaxDeposit)
        /\ \E e \in DefaultAnswersTo(opened, chan, price) :
               LET r == call_dbot_api(opened, chan, price, TRUE,
                                      default_deposit_strategy(price), e)
               IN  /\ chan' = r.chan
                   /\ opened' = r.opened
                   /\ last' = [NoOp EXCEPT !.op = "call_dbot_api",
                                           !.pre = chan, !.arg = price,
                                           !.ret = r.ret, !.call = r.call]
                   /\ hist' = Track(r.chan)
                   /\ UNCHANGED <<sync, ledger, callers>>

NextDefault == CallDbotApiDefault

SpecDefault == InitAtn /\ [][NextDefault]_vars

\* C21: with no deposit strategy, get_suitable_channel returns the channel
\* exactly when one exists and its remaining balance is at least the price,
\* and raises AtnException otherwise; either way it opens no channel, tops
\* nothing up and submits no transaction.
C21_NoStrategyProvisionsNothing ==
    ( /\ last.op = "call_dbot_api"
      /\ ~last.call.configured
      /\ last.call.gsc # "not run" )
        => /\ last.call.gsc = "returned"
                 <=> ( /\ last.call.existed
                       /\ remain_balance(last.pre) >= last.arg )
           /\ last.call.gsc \in {"returned", "AtnException"}
           /\ last.call.gsc = "AtnException" => last.ret = "AtnException"
           /\ last.call.txs = <<>>
           /\ chan.deposit = last.pre.deposit
           /\ chan.state = last.pre.state
           /\ last.call.gsc = "AtnException" => chan = last.pre

\* a channel exists but cannot pay the price, and no strategy is configured
C21_Witness ==
    /\ last.op = "call_dbot_api"
    /\ ~last.call.configured
    /\ last.call.existed
    /\ last.pre.state = "open"
    /\ remain_balance(last.pre) < last.arg
    /\ last.call.gsc = "AtnException"

\* C22: call_dbot_api for an endpoint of price 0 raises AtnException before
\* a channel is looked up, opened or topped up, before the balance changes
\* and before any HTTP request.
C22_UnpricedFailsFirst ==
    (last.op = "call_dbot_api" /\ last.arg = 0)
        => /\ last.ret = "AtnException"
           /\ last.call.gsc = "not run"
           /\ last.call.transfer = "not run"
           /\ ~last.call.synced
           /\ ~last.call.request
           /\ last.call.txs = <<>>
           /\ chan = last.pre

\* an unpriced endpoint was called with a strategy configured and no channel
C22_Witness ==
    /\ last.op = "call_dbot_api"
    /\ last.arg = 0
    /\ last.call.configured
    /\ ~last.call.existed
    /\ last.ret = "AtnException"

\* C23: a topup on an open channel whose ChannelToppedUp event is seen adds
\* exactly the amount to the deposit and leaves balance, signature, state,
\* sender, receiver and open block as they were.
C23_ConfirmedTopupAddsAmount ==
    [][ ( /\ last'.op = "topup"
          /\ chan.state = "open"
          /\ last'.event )
           => /\ last'.ret = "event"
              /\ last'.tx = "topUp"
              /\ last'.tx_arg = last'.arg
              /\ chan'.deposit = chan.deposit + last'.arg
              /\ chan' = [chan EXCEPT !.deposit = chan.deposit + last'.arg]
       ]_vars

\* a channel that has paid something was topped up
C23_Witness ==
    /\ last.op = "topup"
    /\ last.event
    /\ last.arg > 0
    /\ last.pre.balance > 0
    /\ chan.deposit = last.pre.deposit + last.arg
    /\ chan.balance = last.pre.balance

\* C24: when wait_dbot_sync returns, the last answer of the server reports
\* the channel's deposit, and the channel's balance is the balance of that
\* answer, signed anew; when it raises AtnException the channel is unchanged.
C24_SyncAdoptsLastAnswer ==
    [][ (sync.pc = "loop" /\ sync'.pc = "idle")
           => /\ last'.op = "wait_dbot_sync"
              /\ last'.ret \in {"returned", "AtnException"}
              /\ last'.ret = "returned"
                    => /\ sync.dbot_channel.ok
                       /\ sync.dbot_channel.deposit = chan'.deposit
                       /\ chan'.balance = sync.dbot_channel.balance
                       /\ chan'.balance_sig = sign(chan')
                       /\ chan' = update_balance(chan, chan'.balance)
              /\ last'.ret = "AtnException" => chan' = chan ]_vars

\* a wait_dbot_sync with the default retry_times changed the balance
C24_Witness ==
    /\ last.op = "wait_dbot_sync"
    /\ last.ret = "returned"
    /\ last.arg = DefaultRetryTimes
    /\ last.pre.balance > 0
    /\ chan.balance # last.pre.balance
    /\ sync.pc = "idle"

\* C28: close_cooperatively on a channel whose receiver is a contract, called
\* without the owner, raises AssertionError (or returns None when the channel
\* is closed already), submits no transaction and leaves the channel as it
\* was.
C28_MissingOwnerSubmitsNothing ==
    [][ ( /\ last'.op = "close_cooperatively"
          /\ getCode(chan.receiver)
          /\ last'.owner = NoOwner )
           => /\ last'.tx = "none"
              /\ chan' = chan
              /\ last'.ret = IF chan.state = "closed"
                             THEN "None" ELSE "AssertionError" ]_vars

\* the owner's signature over the balance was passed without naming the owner
C28_Witness ==
    /\ last.op = "close_cooperatively"
    /\ last.pre.receiver = ReceiverDbot
    /\ last.pre.state = "open"
    /\ last.owner = NoOwner
    /\ last.closing_sig = sign_close(KeyOf(DbotOwner), last.pre.sender,
                                     last.pre.block, last.pre.balance,
                                     ChannelManager)
    /\ last.ret = "AssertionError"
    /\ chan = last.pre

\* C29: on_settle is called by a settle() on a settling channel that
\* submitted its transaction and saw the ChannelSettled event, with the
\* channel already closed, and by nothing else: not by a settle that waits,
\* times out or is refused, and not by close_cooperatively.
C29_OnSettleOnlyAfterSettle ==
    [][ last'.on_settle
           <=> ( /\ last'.op = "settle"
                 /\ chan.state = "settling"
                 /\ last'.arg <= 0
                 /\ last'.event
                 /\ last'.ret = "event"
                 /\ chan'.state = "closed" ) ]_vars

\* a settle called on_settle
C29_Witness ==
    /\ last.op = "settle"
    /\ last.on_settle
    /\ last.ret = "event"
    /\ last.pre.state = "settling"
    /\ chan.state = "closed"

\* C30: no operation lowers the deposit, and only a topup whose event was
\* seen changes it.
C30_DepositNeverDecreases ==
    [][ /\ chan'.deposit >= chan.deposit
        /\ chan'.deposit # chan.deposit
              => (last'.op = "topup" /\ last'.event /\ last'.ret = "event")
       ]_vars

\* a channel that was topped up was settled with its deposit kept
C30_Witness ==
    /\ last.op = "settle"
    /\ last.ret = "event"
    /\ chan.state = "closed"
    /\ chan.deposit = last.pre.deposit
    /\ chan.deposit > 1
    /\ chan.balance < chan.deposit

\* C25: a call with the default strategy that finds no channel with the payee
\* and opens one submits createChannel with 10 times the price as its first
\* transaction, the channel it opens has that deposit (a price of 100 gives
\* 1000), and every topup of the call, whether the channel was opened by it
\* or found, is by the same 10 times the price.
C25_DefaultDepositIsTenTimesPrice ==
    (last.op = "call_dbot_api" /\ last.call.configured /\ last.arg > 0)
        => LET txs == last.call.txs
               amount == 10 * last.arg
               topups == {i \in 1..Len(txs) : txs[i].name = "topUp"}
           IN  /\ last.call.amount = amount
               /\ \A i \in topups : txs[i].arg = amount
               /\ Cardinality(topups) <= 1
               /\ last.call.existed =>
                      /\ topups = 1..Len(txs)
                      /\ chan.deposit \in {last.pre.deposit,
                                            last.pre.deposit + amount}
               /\ ~last.call.existed =>
                      /\ Len(txs) >= 1
                      /\ txs[1] = Tx("createChannel", amount)
                      /\ topups = 2..Len(txs)
                      /\ get_channel(opened, chan) =>
                             /\ chan.deposit \in {amount, amount + amount}
                             /\ topups = {} => chan.deposit = amount
                             /\ (last.arg = 100 /\ topups = {})
                                    => chan.deposit = 1000

\* a call for a price of 100 opened a channel with a deposit of 1000 and paid
C25_Witness ==
    /\ last.op = "call_dbot_api"
    /\ last.call.configured
    /\ ~last.call.existed
    /\ last.arg = 100
    /\ last.call.txs = <<Tx("createChannel", 1000)>>
    /\ get_channel(opened, chan)
    /\ chan.deposit = 1000
    /\ chan.balance = 100
    /\ last.ret = "response"

\* C26: get_event_blocking ends after at most as many polls as its range has
\* values, with one _wait between two polls; it returns the first log its
\* condition accepts from the first poll that has one, and polls no more; it
\* returns None exactly when no poll had such a log; a wait of 0 raises
\* ValueError before any poll.
C26_PollingEndsWithFirstMatch ==
    last.op = "get_event_blocking"
        => LET p == last.poll
               n == IF p.wait > 0
                    THEN Cardinality({i \in 0..(p.timeout + p.wait - 1) :
                                         i % p.wait = 0})
                    ELSE IF p.wait < 0 /\ p.timeout + p.wait < 0
                    THEN Cardinality({i \in 0..(0 - (p.timeout + p.wait) - 1) :
                                         i % (0 - p.wait) = 0})
                    ELSE 0
               ok(k, j) == \/ ~p.condition.given
                           \/ p.answers[k][j] \in p.condition.accepts
               found(k) == \E j \in 1..Len(p.answers[k]) : ok(k, j)
           IN  /\ p.ret \in {"event", "None", "ValueError"}
               /\ p.ret = "ValueError" <=> p.wait = 0
               /\ p.polls <= n
               /\ p.ret = "event" <=> (\E k \in 1..n : found(k))
               /\ p.ret = "event" =>
                      /\ found(p.polls)
                      /\ \A k \in 1..(p.polls - 1) : ~found(k)
                      /\ \E j \in 1..Len(p.answers[p.polls]) :
                             /\ p.event = p.answers[p.polls][j]
                             /\ ok(p.polls, j)
                             /\ \A i \in 1..(j - 1) : ~ok(p.polls, i)
                      /\ p.waits = p.polls - 1
               /\ p.ret = "None" =>
                      /\ p.polls = n
                      /\ p.event = "none"
                      /\ p.waits = IF n = 0 THEN 0 ELSE n - 1

\* the second log of the third poll was the first one accepted
C26_Witness ==
    /\ last.op = "get_event_blocking"
    /\ last.poll.ret = "event"
    /\ last.poll.polls = 3
    /\ last.poll.waits = 2
    /\ last.poll.condition.given
    /\ Len(last.poll.answers[1]) > 0
    /\ Len(last.poll.answers[3]) = 2
    /\ last.poll.event = last.poll.answers[3][2]

C35_UnfundedTopupSubmitsNothing ==
    [][ ( /\ last'.op = "topup"
          /\ chan.state = "open"
          /\ last'.account_balance < last'.arg )
           => /\ last'.tx = "none"
              /\ last'.ret = "None"
              /\ chan' = chan ]_vars

\* a channel that has paid was to be topped up by 2 from an account holding 1
C35_Witness ==
    /\ last.op = "topup"
    /\ last.pre.state = "open"
    /\ last.pre.balance > 0
    /\ last.arg = 2
    /\ last.account_balance = 1
    /\ last.tx = "none"
    /\ chan = last.pre

\* C34: when wait_dbot_sync raises inside close_channel on an existing
\* channel, Channel.close(0) is invoked, an uncooperativeClose at balance 0 is
\* submitted and close_channel does not end with an exception of its own.
C34_FailedSyncStillCloses ==
    ( /\ last.op = "close_channel"
      /\ last.call.existed
      /\ ~last.call.synced )
        => /\ last.call.close0
           /\ \E i \in DOMAIN last.call.txs :
                  last.call.txs[i] = Tx("uncooperativeClose", 0)
           /\ last.ret # "UnboundLocalError"

\* C33 (as claimed): for a positive wait, get_event_blocking sleeps once
\* between two polls and not after the last one, and the time it sleeps in
\* all is at most the timeout.
C33_SleepsWithinTimeout ==
    (last.op = "get_event_blocking" /\ last.poll.wait > 0)
        => /\ last.poll.waits = last.poll.polls - 1
           /\ last.poll.waits * last.poll.wait <= last.poll.timeout

\* C33: for a positive wait, get_event_blocking sleeps once between two polls
\* and not after the last one; the time it sleeps in all is below timeout +
\* wait, is at most the timeout when wait divides the timeout, and, when no
\* poll matched, is the least multiple of wait that reaches the timeout.
C33_SleepsBelowTimeoutPlusWait ==
    (last.op = "get_event_blocking" /\ last.poll.wait > 0)
        => LET p == last.poll
               slept == p.waits * p.wait
           IN  /\ p.polls >= 1
               /\ p.waits = p.polls - 1
               /\ slept < p.timeout + p.wait
               /\ p.timeout % p.wait = 0 => slept <= p.timeout
               /\ p.ret = "None" =>
                      /\ slept >= p.timeout
                      /\ slept % p.wait = 0

\* with a timeout of 3 and a wait of 2 no poll matched and 4 was slept
C33_Witness ==
    /\ last.op = "get_event_blocking"
    /\ last.poll.timeout = 3
    /\ last.poll.wait = 2
    /\ last.poll.ret = "None"
    /\ last.poll.polls = 3
    /\ last.poll.waits * last.poll.wait = 4

MaxTxs == 3

\* the callers, and the channel each of them drives
Callers == {1, 2}
ChanOf(i) == IF i = 1 THEN chan ELSE callers.other

\* a topUp transaction as signed: the nonce it carries, the channel, the value
TopUpTx(nonce, ch, value) == [nonce |-> nonce, ch |-> ch, value |-> value]

\* contract.py:32-46  signed_contract_transaction: the nonce is the
\* account's transaction count on the ledger when the transaction is built
signed_contract_transaction(i, value) == TopUpTx(ledger.nonce, i, value)

\* channel.py:119-121  the ChannelToppedUp logs get_event_blocking is asked
\* for: those of the channel from block current_block + 1 on
ToppedUpLogs(i, current_block) ==
    {e \in ledger.events : e.ch = i /\ e.block >= current_block + 1}

SetCaller(i, t) == [callers EXCEPT !.t[i] = t]

\* channel.py:81-96  the state guard, the account's balance (enough here) and
\* the block number read before the transaction is built
TopupStart(i) ==
    \E deposit \in 1..MaxTopup :
        /\ callers.t[i].pc = "idle"
        /\ ChanOf(i).state = "open"
        /\ ledger.started < MaxTxs
        /\ callers' = SetCaller(i, [pc |-> "started", deposit |-> deposit,
                                    current_block |-> ledger.block,
                                    nonce |-> 0])
        /\ ledger' = [ledger EXCEPT !.started = @ + 1]
        /\ UNCHANGED <<chan, last, hist, opened, sync>>

\* channel.py:101-110  the transaction is built and signed
TopupBuild(i) ==
    /\ callers.t[i].pc = "started"
    /\ callers' = SetCaller(i,
           [callers.t[i] EXCEPT
               !.pc = "built",
               !.nonce = signed_contract_transaction(
                             i, callers.t[i].deposit).nonce])
    /\ UNCHANGED <<chan, last, hist, opened, sync, ledger>>

\* channel.py:111  sendRawTransaction: the node refuses a nonce that is used
\* up; a nonce that a transaction in the pool carries already is refused or
\* taken beside it, as the node decides; a refusal is raised to the caller
TopupSend(i) ==
    \E accepted \in BOOLEAN :
        LET t == callers.t[i]
            tx == TopUpTx(t.nonce, i, t.deposit)
            taken == \E other \in ledger.pool : other.nonce = tx.nonce
        IN  /\ t.pc = "built"
            /\ tx.nonce < ledger.nonce => ~accepted
            /\ (tx.nonce >= ledger.nonce /\ ~taken) => accepted
            /\ IF accepted
               THEN /\ ledger' = [ledger EXCEPT !.pool = @ \cup {tx}]
                    /\ callers' = SetCaller(i, [t EXCEPT !.pc = "waiting"])
                    /\ UNCHANGED last
               ELSE /\ callers' = SetCaller(i, IdleCaller)
                    /\ last' = [NoOp EXCEPT !.op = "topup",
                                            !.pre = ChanOf(i),
                                            !.arg = t.deposit,
                                            !.ret = "ValueError"]
                    /\ UNCHANGED ledger
            /\ UNCHANGED <<chan, hist, opened, sync>>

\* the ledger mines a transaction of the pool that carries the account's next
\* nonce: the contract adds its value to the channel's deposit and logs
\* ChannelToppedUp; what else carries that nonce can no longer be mined
Mine ==
    \E tx \in ledger.pool :
        /\ tx.nonce = ledger.nonce
        /\ ledger' = [ledger EXCEPT
                          !.nonce = @ + 1,
                          !.block = @ + 1,
                          !.pool = {o \in @ : o.nonce # tx.nonce},
                          !.deposit[tx.ch] = @ + tx.value,
                          !.events = @ \cup {[ch |-> tx.ch,
                                              block |-> ledger.block + 1]}]
        /\ UNCHANGED <<chan, last, hist, opened, sync, callers>>

\* channel.py:113-131  the wait for the event: a log that is there is
\* returned, and without one the wait may time out
TopupWait(i) ==
    LET t == callers.t[i]
        event == ToppedUpLogs(i, t.current_block) # {}
        r == topup(ChanOf(i), t.deposit, t.deposit, event)
    IN  /\ t.pc = "waiting"
        /\ IF i = 1
           THEN chan' = r.chan /\ callers' = SetCaller(i, IdleCaller)
           ELSE /\ chan' = chan
                /\ callers' = [SetCaller(i, IdleCaller) EXCEPT
                                  !.other = r.chan]
        /\ last' = [NoOp EXCEPT !.op = "topup", !.pre = ChanOf(i),
                                !.arg = t.deposit, !.event = event,
                                !.account_balance = t.deposit,
                                !.ret = r.ret, !.tx = r.tx,
                                !.tx_arg = r.tx_arg]
        /\ UNCHANGED <<hist, opened, sync, ledger>>

\* two open channels with a deposit of 1 each, as the ledger holds them
InitLedger ==
    /\ chan = NewChannel(ReceiverEOA, 1)
    /\ callers = [NoCallers EXCEPT !.other = NewChannel(ReceiverDbot, 1)]
    /\ ledger = [NoLedger EXCEPT !.deposit = <<1, 1>>]
    /\ last = [NoOp EXCEPT !.pre = chan]
    /\ hist = [base |-> 0, sum |-> 0]
    /\ opened = TRUE
    /\ sync = SyncIdle

NextLedger ==
    \/ \E i \in Callers : TopupStart(i)
    \/ \E i \in Callers : TopupBuild(i)
    \/ \E i \in Callers : TopupSend(i)
    \/ \E i \in Callers : TopupWait(i)
    \/ Mine

SpecLedger == InitLedger /\ [][NextLedger]_vars

\* C31: when two callers, each inside a topup of its own channel, both hold
\* a transaction built by signed_contract_transaction (built, or sent and
\* waited for), the two transactions carry different nonces.
C31_ConcurrentCallersDistinctNonces ==
    ( /\ callers.t[1].pc \in {"built", "waiting"}
      /\ callers.t[2].pc \in {"built", "waiting"} )
        => callers.t[1].nonce # callers.t[2].nonce

\* C32: the deposit of each channel object is at most the deposit the
\* ledger holds for that channel.
C32_LocalDepositWithinLedger ==
    /\ chan.deposit <= ledger.deposit[1]
    /\ callers.other.deposit <= ledger.deposit[2]

====
